---- MODULE Spec2Model ----
(***************************************************************************)
(* A model of the attendance ledger of the Face ID attendance system:      *)
(* AttendanceManager (src/attendance_manager.py), its configuration        *)
(* (src/config.py) and the callers that share one manager between threads  *)
(* (src/main.py, src/ui_manager.py).                                       *)
(*                                                                         *)
(* The daily ledgers are CSV files.  record_check_in appends a text row    *)
(* with csv.writer; _get_checked_in_employees and record_check_out read    *)
(* the file back with pandas.read_csv, and record_check_out rewrites the   *)
(* whole file with DataFrame.to_csv.  Each method is cut into the steps at *)
(* which it touches the shared state (the clock, the cache, the file), so  *)
(* that calls made by different threads interleave as they do in Python.   *)
(* generate_monthly_report reads the ledgers of a month with read_csv and  *)
(* builds the table of the report.                                         *)
(*                                                                         *)
(* Specifications: Spec (the threads of one day, interleaved), SeqSpec     *)
(* (one call at a time over several days and restarts), FaultSpec (SeqSpec *)
(* with a file system that can fail), SummarySpec (SeqSpec with            *)
(* get_attendance_summary), RewriteSpec (the threads of one day with the   *)
(* rewrite of the file in its two steps), InitSpec (constructions of other *)
(* manager objects among the check-ins), FrontSpec (the calls and what the *)
(* front ends show of them), ZoneSpec (a machine whose clock is UTC),      *)
(* UISpec (the video loop and the recognition threads of UIManager) and    *)
(* UILiveSpec (UISpec with threads that run on), PureSpec (the status and  *)
(* duration computations on their own), ReportSpec (the monthly report)    *)
(* and RepeatSpec (the report of a month with repeated records).           *)
(***************************************************************************)
EXTENDS Integers, Sequences, FiniteSets, TLC

VARIABLES
    clock,      \* the wall clock: [date, time], time in seconds since midnight
    exists,     \* the dates whose attendance_<date>.csv exists
    files,      \* date -> the rows of attendance_<date>.csv below the header
    today,      \* AttendanceManager.today (and so today_str, today_file)
    cache,      \* AttendanceManager.checked_in_employees
    pc,         \* thread -> the step its call is at
    loc,        \* thread -> the local variables of its call
    calls,      \* the number of calls begun so far
    closed_by,  \* history: <<call, row>> for every row a check-out call closed
    last_call,  \* history: employee id -> the last call returned for it
    probe,      \* the inputs and outputs of the pure computations
    report,     \* generate_monthly_report: its arguments, the files, its table
    ui          \* UIManager: its flags, its status line, its recognition threads

vars ==
    <<clock, exists, files, today, cache, pc, loc, calls, closed_by, last_call,
      probe, report, ui>>

-----------------------------------------------------------------------------
(* Bounds of the model *)

MaxDay == 2
MaxCalls == 3
NThreads == 2

Dates == 1..MaxDay
Threads == 1..NThreads

(* Configuration: src/config.py *)

WORK_START_TIME == "09:00"
LATE_THRESHOLD_MINUTES == 10

-----------------------------------------------------------------------------
(* Time of day: seconds since midnight, and its text forms *)

SecondsPerDay == 24 * 60 * 60

HMS(h, m, s) == (h * 60 + m) * 60 + s

Pad2(n) == IF n < 10 THEN "0" \o ToString(n) ELSE ToString(n)

\* datetime.strftime('%H:%M:%S')
Strftime(t) ==
    Pad2(t \div 3600) \o ":" \o Pad2((t \div 60) % 60) \o ":" \o Pad2(t % 60)

\* the text of a time of day in the form '%H:%M'
StrftimeHM(t) == Pad2(t \div 3600) \o ":" \o Pad2((t \div 60) % 60)

\* the clock readings of the model
ClockTimes == {HMS(0, 10, 0), HMS(9, 5, 0), HMS(23, 50, 0)}

\* the times of day the pure computations are probed with
ProbeTimes ==
    {HMS(0, 0, 0), HMS(0, 10, 0), HMS(8, 55, 0), HMS(8, 59, 59), HMS(9, 0, 0),
     HMS(9, 0, 1), HMS(9, 9, 59), HMS(9, 10, 0), HMS(9, 10, 1), HMS(9, 11, 0),
     HMS(17, 0, 0), HMS(23, 50, 0), HMS(23, 59, 59)}

AllTimes == ClockTimes \cup ProbeTimes

\* datetime.strptime(s, '%H:%M:%S'): the time of day whose text is s
StrptimeTable ==
    [s \in {Strftime(t) : t \in AllTimes} |-> CHOOSE t \in AllTimes : Strftime(t) = s]

Strptime(s) == StrptimeTable[s]

\* datetime.strptime(s, '%H:%M'): the full minute whose text is s
StrptimeHM(s) == CHOOSE t \in {m * 60 : m \in 0..(24 * 60 - 1)} : StrftimeHM(t) = s

\* datetime.strptime(self.work_start_time, '%H:%M')
work_start_dt == StrptimeHM(WORK_START_TIME)

\* str(timedelta(seconds=d)): the hours are not zero-padded
TimedeltaStr(d) ==
    LET days == d \div SecondsPerDay
        r == d % SecondsPerDay
        prefix == IF days = 0 THEN ""
                  ELSE IF days = 1 THEN "1 day, "
                  ELSE ToString(days) \o " days, "
    IN  prefix \o ToString(r \div 3600) \o ":" \o Pad2((r \div 60) % 60)
            \o ":" \o Pad2(r % 60)

-----------------------------------------------------------------------------
(* AttendanceManager._get_status *)

\* a slip: the difference cut to whole minutes before it is compared
get_status_whole_minutes(check_in_time) ==
    LET time_diff == (Strptime(check_in_time) - work_start_dt) \div 60
    IN  IF time_diff <= 0 THEN "On Time"
        ELSE IF time_diff <= LATE_THRESHOLD_MINUTES THEN "Grace Period"
        ELSE "Late"

\* time_diff = total_seconds() / 60 is a fraction of minutes; the comparisons
\* time_diff <= 0 and time_diff <= late_threshold are made here on the
\* seconds, 60 * time_diff, which is exact
get_status(check_in_time) ==
    LET check_in_dt == Strptime(check_in_time)
        seconds == check_in_dt - work_start_dt
    IN  IF seconds <= 0 THEN "On Time"
        ELSE IF seconds <= LATE_THRESHOLD_MINUTES * 60 THEN "Grace Period"
        ELSE "Late"

\* record_check_in: the comment that goes with a status
CheckInComments(status) ==
    IF status = "Late"
        THEN "Late by more than " \o ToString(LATE_THRESHOLD_MINUTES) \o " minutes"
    ELSE IF status = "Grace Period"
        THEN "Within " \o ToString(LATE_THRESHOLD_MINUTES) \o " minute grace period"
    ELSE ""

\* a slip: the check-in subtracted from the check-out with no day added
work_duration_no_wrap(check_in_time, time_str) ==
    LET d == Strptime(time_str) - Strptime(check_in_time)
    IN  IF d < 0 THEN 0 - d ELSE d

\* record_check_out: the seconds between the stored check-in time of day and
\* the check-out time of day, a day added when the check-out reads earlier
work_duration(check_in_time, time_str) ==
    LET check_in_dt == Strptime(check_in_time)
        check_out_dt == Strptime(time_str)
        check_out_dt2 == IF check_out_dt < check_in_dt
                         THEN check_out_dt + SecondsPerDay ELSE check_out_dt
    IN  check_out_dt2 - check_in_dt

-----------------------------------------------------------------------------
(* The ledger file and its two readers and writers: csv.writer rows of     *)
(* text, pandas.read_csv and DataFrame.to_csv.                             *)

EmployeeIds == {"E1", "7"}

\* the display name the recognizer passes with an employee id
NameOf(id) == IF id = "E1" THEN "An" ELSE "Binh"

\* the decimal numerals of the model: read_csv reads them as integers
Numerals == {ToString(n) : n \in 0..9}

NaN == "NaN"

StrKey(id) == [t |-> "str", v |-> id]
IntKey(id) == [t |-> "int", v |-> id]

\* pandas.read_csv(today_file).  An empty field is read as NaN.  The type of
\* a column is inferred from all of its values: a column of numerals only
\* (here the Employee ID column) is read as integers, any other as text.
\* rid is the identity of a row (the call that appended it); it is not a
\* field of the file and no step of the program reads it.
read_csv(rows) ==
    LET int_ids == rows # <<>> /\ \A i \in 1..Len(rows) : rows[i].id \in Numerals
        field(x) == IF x = "" THEN NaN ELSE x
    IN  [i \in 1..Len(rows) |->
            [id |-> IF int_ids THEN IntKey(rows[i].id) ELSE StrKey(rows[i].id),
             name |-> field(rows[i].name),
             check_in |-> field(rows[i].check_in),
             check_out |-> field(rows[i].check_out),
             status |-> field(rows[i].status),
             comments |-> field(rows[i].comments),
             rid |-> rows[i].rid]]

\* DataFrame.to_csv(today_file, index=False): NaN is written as an empty
\* field, an integer as its numeral
to_csv(df) ==
    LET text(x) == IF x = NaN THEN "" ELSE x
    IN  [i \in 1..Len(df) |->
            [id |-> df[i].id.v,
             name |-> text(df[i].name),
             check_in |-> text(df[i].check_in),
             check_out |-> text(df[i].check_out),
             status |-> text(df[i].status),
             comments |-> text(df[i].comments),
             rid |-> df[i].rid]]

\* the row record_check_in writes with csv.writer
CheckInRow(employee_id, name, time_str, status, comments, rid) ==
    [id |-> employee_id, name |-> name, check_in |-> time_str, check_out |-> "",
     status |-> status, comments |-> comments, rid |-> rid]

\* AttendanceManager._get_checked_in_employees: the rows with a check-in and
\* no check-out, keyed by the Employee ID as read_csv returns it; a later row
\* of the same key replaces an earlier one
get_checked_in_employees(file_exists, rows) ==
    IF ~file_exists THEN <<>>
    ELSE
        LET df == read_csv(rows)
            open == {i \in 1..Len(df) : df[i].check_in # NaN /\ df[i].check_out = NaN}
            keys == {df[i].id : i \in open}
            last(k) == CHOOSE i \in open :
                           df[i].id = k /\ \A j \in open : df[j].id = k => j <= i
        IN  [k \in keys |->
                [name |-> df[last(k)].name, check_in_time |-> df[last(k)].check_in]]

-----------------------------------------------------------------------------
(* record_check_out: the update of the data frame, lines 154 to 182 *)

\* the rows of the mask: the Employee ID cell equals the employee_id the
\* caller passed (a str, so a cell read as an integer never equals it) and
\* the Check-out Time cell is NaN
Mask(df, employee_id) ==
    {i \in 1..Len(df) : df[i].id = StrKey(employee_id) /\ df[i].check_out = NaN}

\* .iloc[0] of a masked column: the first row of the mask
First(mask) == CHOOSE i \in mask : \A j \in mask : i <= j

\* a slip: the status computed again from the check-out time
check_out_frame_restatus(df, employee_id, time_str) ==
    [i \in 1..Len(df) |->
        IF i \in Mask(df, employee_id)
        THEN [df[i] EXCEPT !.check_out = time_str, !.status = get_status(time_str)]
        ELSE df[i]]

\* a slip: the mask leaves out the test of the Employee ID, so the open
\* rows of every employee are closed
check_out_frame_all_open(df, employee_id, time_str) ==
    LET mask == Mask(df, employee_id)
        check_in_time == df[First(mask)].check_in
        duration_str == TimedeltaStr(work_duration(check_in_time, time_str))
        comments == "Work duration: " \o duration_str
    IN  [i \in 1..Len(df) |->
            IF df[i].check_out = NaN
            THEN [df[i] EXCEPT !.check_out = time_str, !.comments = comments]
            ELSE df[i]]

\* the data frame record_check_out saves: every row of the mask gets the
\* check-out time, and the comments of the first row of the mask followed by
\* the work duration computed from the check-in time of that first row
check_out_frame(df, employee_id, time_str) ==
    LET mask == Mask(df, employee_id)
        check_in_time == df[First(mask)].check_in
        duration_str == TimedeltaStr(work_duration(check_in_time, time_str))
        current_comments == df[First(mask)].comments
        comments == IF current_comments = NaN \/ current_comments = ""
                    THEN "Work duration: " \o duration_str
                    ELSE current_comments \o "; Work duration: " \o duration_str
    IN  [i \in 1..Len(df) |->
            IF i \in mask
            THEN [df[i] EXCEPT !.check_out = time_str, !.comments = comments]
            ELSE df[i]]

-----------------------------------------------------------------------------
(* The calls.  A thread is idle, or inside one call; a finished call holds *)
(* its return value until the caller takes it.                             *)

NoResult ==
    [success |-> FALSE, message |-> "", time |-> "", status |-> "",
     comments |-> "", duration |-> ""]

NoPre == [rows |-> <<>>, cache |-> <<>>]

\* what a front end shows of a call: the text of the status line, and whether
\* it is shown as a success (the colour of the line, the sound)
NoShown == [message |-> "", success |-> FALSE]

\* op, employee_id, name, time_str, df and result are the locals of the
\* methods.  call_date (the calendar date at the moment of the call), callno
\* and pre (the manager's ledger and cache when the call began) are history.
Idle ==
    [op |-> "none", employee_id |-> "", name |-> "", time_str |-> "",
     call_date |-> 0, callno |-> 0, df |-> <<>>, result |-> NoResult,
     pre |-> NoPre, date |-> 0, columns |-> <<>>, shown |-> NoShown]

NoCall == [op |-> "none", success |-> FALSE, call_date |-> 0]

NoProbe ==
    [check_in |-> 0, check_out |-> 0, status |-> "", duration |-> 0,
     duration_str |-> ""]

NoTable == [columns |-> <<>>, rows |-> <<>>]

NoReport ==
    [year |-> 0, month |-> 0, fs |-> <<>>, dates |-> <<>>, table |-> NoTable,
     done |-> FALSE, runs |-> 0, previous |-> NoTable]

\* the recognition threads UIManager may have alive at one time in the model
Workers == 1..NThreads

\* a recognition thread that is not running
\* (path is history: the way the thread went through the method)
NoWorker ==
    [stage |-> "none", path |-> "", employee_id |-> "", thread |-> 0,
     success |-> FALSE, message |-> ""]

\* UIManager.__init__ (ui_manager.py, lines 36 to 58) and start (lines 86,
\* 87).  cooled stands for time.time() - last_recognized_time >
\* recognition_cooldown, which is true from the start.  Of the status line
\* the model keeps what a recognition thread writes after its attendance
\* call, in the message of the thread.
NoUI ==
    [is_processing |-> FALSE, check_in_mode |-> TRUE, cooled |-> TRUE,
     worker |-> [w \in Workers |-> NoWorker]]

Put(cch, key, value) ==
    [k \in DOMAIN cch \cup {key} |-> IF k = key THEN value ELSE cch[k]]

Pop(cch, key) == [k \in DOMAIN cch \ {key} |-> cch[k]]

Init ==
    /\ clock = [date |-> 1, time |-> HMS(0, 10, 0)]
    /\ exists = {1}
    /\ files = [d \in Dates |-> <<>>]
    /\ today = 1
    /\ cache = <<>>
    /\ pc = [t \in Threads |-> "idle"]
    /\ loc = [t \in Threads |-> Idle]
    /\ calls = 0
    /\ closed_by = {}
    /\ last_call = [e \in EmployeeIds |-> NoCall]
    /\ probe = NoProbe
    /\ report = NoReport
    /\ ui = NoUI

\* time passes: the clock moves on to a later reading on one of the dates
Tick(dates) ==
    /\ \E d \in dates, t \in ClockTimes :
        /\ d > clock.date \/ (d = clock.date /\ t > clock.time)
        /\ clock' = [date |-> d, time |-> t]
    /\ UNCHANGED <<exists, files, today, cache, pc, loc, calls, closed_by, last_call, probe, report, ui>>

\* datetime.now(self.vietnam_tz), line 26: clock is the clock of the machine
\* in its own time zone, which is what datetime.now() reads (lines 91, 141),
\* and offset the seconds the time of Vietnam is ahead of it
vietnam_now(now, offset) ==
    [date |-> now.date + (now.time + offset) \div SecondsPerDay,
     time |-> (now.time + offset) % SecondsPerDay]

\* AttendanceManager.__init__ on a start of the process: no call of the
\* shared manager is running (another program may be in its own __init__).
\* The dates of the model end with MaxDay.
ConstructIn(offset) ==
    LET date == vietnam_now(clock, offset).date
    IN  /\ \A t \in Threads : pc[t] = "idle" \/ loc[t].op = "init"
        /\ date \in Dates
        /\ today' = date
        /\ exists' = exists \cup {date}
        /\ cache' = get_checked_in_employees(TRUE, files[date])
        /\ UNCHANGED <<clock, files, pc, loc, calls, closed_by, last_call, probe, report, ui>>

\* the clock of the machine is set to the time of Vietnam
Construct == ConstructIn(0)

\* the first two lines of record_check_in and record_check_out: the clock is
\* read and formatted.  The threads are alike, so the idle thread of the
\* lowest number takes the call.
BeginCall(t, op, employee_id) ==
    /\ pc[t] = "idle"
    /\ \A u \in Threads : u < t => pc[u] # "idle"
    /\ calls < MaxCalls
    /\ calls' = calls + 1
    /\ loc' = [loc EXCEPT ![t] =
                [Idle EXCEPT !.op = op, !.employee_id = employee_id,
                             !.name = NameOf(employee_id),
                             !.time_str = Strftime(clock.time),
                             !.call_date = clock.date, !.callno = calls + 1,
                             !.pre = [rows |-> files[today], cache |-> cache]]]
    /\ pc' = [pc EXCEPT ![t] = IF op = "check_in" THEN "ci_precheck" ELSE "co_precheck"]
    /\ UNCHANGED <<clock, exists, files, today, cache, closed_by, last_call, probe, report>>

\* a call whose caller is not a recognition thread of UIManager
Call(t, op, employee_id) == BeginCall(t, op, employee_id) /\ UNCHANGED ui

\* a slip: a rejected check-in refreshes the cached check-in time
CI_PreCheck_touches(t) ==
    /\ pc[t] = "ci_precheck"
    /\ IF StrKey(loc[t].employee_id) \in DOMAIN cache
       THEN /\ loc' = [loc EXCEPT ![t].result =
                        [NoResult EXCEPT !.message =
                            loc[t].name \o " has already checked in today at "
                            \o cache[StrKey(loc[t].employee_id)].check_in_time \o "."]]
            /\ cache' = [cache EXCEPT ![StrKey(loc[t].employee_id)].check_in_time =
                            loc[t].time_str]
            /\ pc' = [pc EXCEPT ![t] = "done"]
       ELSE /\ pc' = [pc EXCEPT ![t] = "ci_append"]
            /\ UNCHANGED <<loc, cache, ui>>
    /\ UNCHANGED <<clock, exists, files, today, calls, closed_by, last_call, probe, report, ui>>

\* record_check_in, lines 94 to 99
CI_PreCheck(t) ==
    /\ pc[t] = "ci_precheck"
    /\ IF StrKey(loc[t].employee_id) \in DOMAIN cache
       THEN /\ loc' = [loc EXCEPT ![t].result =
                        [NoResult EXCEPT !.message =
                            loc[t].name \o " has already checked in today at "
                            \o cache[StrKey(loc[t].employee_id)].check_in_time \o "."]]
            /\ pc' = [pc EXCEPT ![t] = "done"]
       ELSE /\ pc' = [pc EXCEPT ![t] = "ci_append"]
            /\ UNCHANGED loc
    /\ UNCHANGED <<clock, exists, files, today, cache, calls, closed_by, last_call, probe, report, ui>>

\* a slip: a check-in after a check-out takes the status of the employee's
\* earlier record of the day
CI_Append_reuses_status(t) ==
    /\ pc[t] = "ci_append"
    /\ LET earlier == {i \in 1..Len(files[today]) :
                          files[today][i].id = loc[t].employee_id}
           status == IF earlier = {} THEN get_status(loc[t].time_str)
                     ELSE files[today][CHOOSE i \in earlier : TRUE].status
           comments == CheckInComments(status)
       IN  /\ files' = [files EXCEPT ![today] =
                    Append(@, CheckInRow(loc[t].employee_id, loc[t].name,
                                         loc[t].time_str, status, comments,
                                         loc[t].callno))]
           /\ loc' = [loc EXCEPT ![t].result =
                    [NoResult EXCEPT !.success = TRUE, !.time = loc[t].time_str,
                                     !.status = status, !.comments = comments]]
    /\ exists' = exists \cup {today}
    /\ pc' = [pc EXCEPT ![t] = "ci_cache"]
    /\ UNCHANGED <<clock, today, cache, calls, closed_by, last_call, probe, report, ui>>

\* record_check_in, lines 101 to 114: the row is appended to today_file
CI_Append(t) ==
    /\ pc[t] = "ci_append"
    /\ LET status == get_status(loc[t].time_str)
           comments == CheckInComments(status)
       IN  /\ files' = [files EXCEPT ![today] =
                    Append(@, CheckInRow(loc[t].employee_id, loc[t].name,
                                         loc[t].time_str, status, comments,
                                         loc[t].callno))]
           /\ loc' = [loc EXCEPT ![t].result =
                    [NoResult EXCEPT !.success = TRUE, !.time = loc[t].time_str,
                                     !.status = status, !.comments = comments]]
    /\ exists' = exists \cup {today}
    /\ pc' = [pc EXCEPT ![t] = "ci_cache"]
    /\ UNCHANGED <<clock, today, cache, calls, closed_by, last_call, probe, report, ui>>

\* record_check_in, lines 116 to 129
CI_UpdateCache(t) ==
    /\ pc[t] = "ci_cache"
    /\ cache' = Put(cache, StrKey(loc[t].employee_id),
                    [name |-> loc[t].name, check_in_time |-> loc[t].time_str])
    /\ pc' = [pc EXCEPT ![t] = "done"]
    /\ UNCHANGED <<clock, exists, files, today, loc, calls, closed_by, last_call, probe, report, ui>>

\* a slip: the cache is not consulted before the file is read
CO_PreCheck_skipped(t) ==
    /\ pc[t] = "co_precheck"
    /\ pc' = [pc EXCEPT ![t] = "co_read"]
    /\ UNCHANGED <<clock, exists, files, today, cache, loc, calls, closed_by,
                   last_call, probe, report, ui>>

\* record_check_out, lines 144 to 149
CO_PreCheck(t) ==
    /\ pc[t] = "co_precheck"
    /\ IF StrKey(loc[t].employee_id) \notin DOMAIN cache
       THEN /\ loc' = [loc EXCEPT ![t].result =
                        [NoResult EXCEPT !.message =
                            loc[t].name \o " has not checked in today."]]
            /\ pc' = [pc EXCEPT ![t] = "done"]
       ELSE /\ pc' = [pc EXCEPT ![t] = "co_read"]
            /\ UNCHANGED loc
    /\ UNCHANGED <<clock, exists, files, today, cache, calls, closed_by, last_call, probe, report, ui>>

\* a slip: a check-out that finds no open record reports success
CO_Read_reports_success(t) ==
    /\ pc[t] = "co_read"
    /\ LET df == read_csv(files[today])
       IN  IF Mask(df, loc[t].employee_id) = {}
           THEN /\ loc' = [loc EXCEPT ![t].result =
                            [NoResult EXCEPT !.success = TRUE,
                                             !.time = loc[t].time_str]]
                /\ pc' = [pc EXCEPT ![t] = "done"]
           ELSE /\ loc' = [loc EXCEPT ![t].df = df]
                /\ pc' = [pc EXCEPT ![t] = "co_write"]
    /\ UNCHANGED <<clock, exists, files, today, cache, calls, closed_by, last_call, probe, report, ui>>

\* record_check_out, lines 151 to 160: today_file is read
CO_Read(t) ==
    /\ pc[t] = "co_read"
    /\ LET df == read_csv(files[today])
       IN  IF Mask(df, loc[t].employee_id) = {}
           THEN /\ loc' = [loc EXCEPT ![t].result =
                            [NoResult EXCEPT !.message =
                                "No active check-in found for " \o loc[t].name \o "."]]
                /\ pc' = [pc EXCEPT ![t] = "done"]
           ELSE /\ loc' = [loc EXCEPT ![t].df = df]
                /\ pc' = [pc EXCEPT ![t] = "co_write"]
    /\ UNCHANGED <<clock, exists, files, today, cache, calls, closed_by, last_call, probe, report, ui>>

\* record_check_out, lines 162 to 185: the frame is updated and saved over
\* today_file
CO_Write(t) ==
    /\ pc[t] = "co_write"
    /\ LET df == loc[t].df
           mask == Mask(df, loc[t].employee_id)
           duration_str ==
               TimedeltaStr(work_duration(df[First(mask)].check_in, loc[t].time_str))
           saved == check_out_frame(df, loc[t].employee_id, loc[t].time_str)
       IN  /\ files' = [files EXCEPT ![today] = to_csv(saved)]
           /\ loc' = [loc EXCEPT ![t].df = saved,
                                 ![t].result =
                                    [NoResult EXCEPT !.success = TRUE,
                                                     !.time = loc[t].time_str,
                                                     !.duration = duration_str]]
           /\ closed_by' = closed_by \cup {<<loc[t].callno, df[i].rid>> : i \in mask}
    /\ exists' = exists \cup {today}
    /\ pc' = [pc EXCEPT ![t] = "co_pop"]
    /\ UNCHANGED <<clock, today, cache, calls, last_call, probe, report, ui>>

\* a slip: the employee is left in the cache after the check-out
CO_PopCache_keeps(t) ==
    /\ pc[t] = "co_pop"
    /\ pc' = [pc EXCEPT ![t] = "done"]
    /\ UNCHANGED <<clock, exists, files, today, cache, loc, calls, closed_by,
                   last_call, probe, report, ui>>

\* record_check_out, lines 187 to 196
CO_PopCache(t) ==
    /\ pc[t] = "co_pop"
    /\ cache' = Pop(cache, StrKey(loc[t].employee_id))
    /\ pc' = [pc EXCEPT ![t] = "done"]
    /\ UNCHANGED <<clock, exists, files, today, loc, calls, closed_by, last_call, probe, report, ui>>

\* the caller takes the return value
TakeResult(t) ==
    /\ pc[t] = "done"
    /\ pc' = [pc EXCEPT ![t] = "idle"]
    /\ loc' = [loc EXCEPT ![t] = Idle]
    /\ last_call' = IF loc[t].employee_id \in EmployeeIds
                    THEN [last_call EXCEPT ![loc[t].employee_id] =
                            [op |-> loc[t].op, success |-> loc[t].result.success,
                             call_date |-> loc[t].call_date]]
                    ELSE last_call
    /\ UNCHANGED <<clock, exists, files, today, cache, calls, closed_by, probe, report>>

Return(t) == TakeResult(t) /\ UNCHANGED ui

record_check_in(t) ==
    \/ \E e \in EmployeeIds : Call(t, "check_in", e)
    \/ CI_PreCheck(t)
    \/ CI_Append(t)
    \/ CI_UpdateCache(t)

record_check_out(t) ==
    \/ \E e \in EmployeeIds : Call(t, "check_out", e)
    \/ CO_PreCheck(t)
    \/ CO_Read(t)
    \/ CO_Write(t)
    \/ CO_PopCache(t)

\* one day of work: the calls of the threads interleave step by step
Next ==
    \/ Tick({clock.date})
    \/ Construct
    \/ \E t \in Threads : record_check_in(t)
    \/ \E t \in Threads : record_check_out(t)
    \/ \E t \in Threads : Return(t)

Spec == Init /\ [][Next]_vars

Quiet == \A t \in Threads : pc[t] = "idle"

\* one call at a time, over several days: a call runs from its first step to
\* its return with no other step in between
SeqNext ==
    \/ Quiet /\ Tick(Dates)
    \/ Construct
    \/ record_check_in(1)
    \/ record_check_out(1)
    \/ Return(1)

SeqSpec == Init /\ [][SeqNext]_vars

\* the ledger file cannot be opened, read or written (it is locked by
\* another program, the disk is full, the file was removed): open() at line
\* 112, pandas.read_csv at line 152 or DataFrame.to_csv at line 185 raises.
\* The methods have no try statement, so the exception leaves the call.
CI_Append_raises(t) ==
    /\ pc[t] = "ci_append"
    /\ pc' = [pc EXCEPT ![t] = "raised"]
    /\ UNCHANGED <<clock, exists, files, today, cache, loc, calls, closed_by,
                   last_call, probe, report, ui>>

CO_Read_raises(t) ==
    /\ pc[t] = "co_read"
    /\ pc' = [pc EXCEPT ![t] = "raised"]
    /\ UNCHANGED <<clock, exists, files, today, cache, loc, calls, closed_by,
                   last_call, probe, report, ui>>

\* to_csv opens today_file for writing, which empties it, and then writes the
\* header and the rows.  When the open fails the file is as it was; when a
\* write fails (the disk is full) the file holds the header and the rows
\* written so far.
CO_Write_raises(t) ==
    /\ pc[t] = "co_write"
    /\ LET mask == Mask(loc[t].df, loc[t].employee_id)
           saved == to_csv(check_out_frame(loc[t].df, loc[t].employee_id,
                                           loc[t].time_str))
       IN  \/ UNCHANGED <<files, closed_by, ui>>
           \/ \E k \in 0..(Len(saved) - 1) :
                /\ files' = [files EXCEPT ![today] = SubSeq(saved, 1, k)]
                /\ closed_by' = closed_by \cup
                        {<<loc[t].callno, saved[i].rid>> : i \in mask \cap 1..k}
    /\ pc' = [pc EXCEPT ![t] = "raised"]
    /\ UNCHANGED <<clock, exists, today, cache, loc, calls, last_call, probe, report, ui>>

\* the caller's except clause takes the exception: the call is over and has
\* returned nothing
Unwind(t) ==
    /\ pc[t] = "raised"
    /\ pc' = [pc EXCEPT ![t] = "idle"]
    /\ loc' = [loc EXCEPT ![t] = Idle]
    /\ UNCHANGED <<clock, exists, files, today, cache, calls, closed_by,
                   last_call, probe, report, ui>>

\* one call at a time, with a file system that can fail
FaultNext ==
    \/ SeqNext
    \/ CI_Append_raises(1)
    \/ CO_Read_raises(1)
    \/ CO_Write_raises(1)
    \/ Unwind(1)

FaultSpec == Init /\ [][FaultNext]_vars

-----------------------------------------------------------------------------
(* get_attendance_summary, lines 198 to 215.  The argument is a date or     *)
(* None (here 0), which stands for today_str of the manager.               *)

LedgerColumns ==
    <<"Employee ID", "Name", "Check-in Time", "Check-out Time", "Status",
      "Comments">>

\* to_csv of record_check_out has opened today_file for writing, which
\* empties it, and has not yet written the frame
Torn(d) == d = today /\ \E u \in Threads : pc[u] = "co_save"

\* lines 200 to 204: the date of the summary and the path of its file
GS_Call(t, d) ==
    /\ pc[t] = "idle"
    /\ \A u \in Threads : u < t => pc[u] # "idle"
    /\ calls < MaxCalls
    /\ calls' = calls + 1
    /\ loc' = [loc EXCEPT ![t] =
                [Idle EXCEPT !.op = "summary",
                             !.date = IF d = 0 THEN today ELSE d,
                             !.call_date = clock.date, !.callno = calls + 1,
                             !.pre = [rows |-> files[IF d = 0 THEN today ELSE d],
                                      cache |-> cache]]]
    /\ pc' = [pc EXCEPT ![t] = "gs_read"]
    /\ UNCHANGED <<clock, exists, files, today, cache, closed_by, last_call, probe, report, ui>>

\* a slip: the summary leaves out the records that are checked out
GS_Read_open_only(t) ==
    /\ pc[t] = "gs_read"
    /\ LET df == read_csv(files[loc[t].date])
       IN  loc' = [loc EXCEPT ![t].df = SelectSeq(df, LAMBDA r : r.check_out = NaN),
                              ![t].columns = LedgerColumns]
    /\ pc' = [pc EXCEPT ![t] = "done"]
    /\ UNCHANGED <<clock, exists, files, today, cache, calls, closed_by, last_call, probe, report, ui>>

\* lines 206 to 215: an empty frame of the six columns when the file does not
\* exist, else the frame read_csv makes of it.  read_csv raises EmptyDataError
\* on a file of no bytes.
GS_Read(t) ==
    /\ pc[t] = "gs_read"
    /\ IF loc[t].date \notin exists
       THEN /\ loc' = [loc EXCEPT ![t].df = <<>>,
                                  ![t].columns = LedgerColumns]
            /\ pc' = [pc EXCEPT ![t] = "done"]
       ELSE IF Torn(loc[t].date)
       THEN /\ pc' = [pc EXCEPT ![t] = "raised"]
            /\ UNCHANGED loc
       ELSE /\ loc' = [loc EXCEPT ![t].df = read_csv(files[loc[t].date]),
                                  ![t].columns = LedgerColumns]
            /\ pc' = [pc EXCEPT ![t] = "done"]
    /\ UNCHANGED <<clock, exists, files, today, cache, calls, closed_by, last_call, probe, report, ui>>

get_attendance_summary(t) ==
    \/ \E d \in Dates \cup {0} : GS_Call(t, d)
    \/ GS_Read(t)

\* one call at a time, the summary among them
SummaryNext ==
    \/ SeqNext
    \/ get_attendance_summary(1)

SummarySpec == Init /\ [][SummaryNext]_vars

-----------------------------------------------------------------------------
(* The rewrite of today_file seen by the other threads.  DataFrame.to_csv  *)
(* (line 185) opens the file for writing, which empties it, formats the    *)
(* frame into the buffer of the file object and writes the buffer when it  *)
(* closes the file: between the two the file has no bytes.                 *)

\* to_csv opens today_file: the file is created or emptied
CO_Truncate(t) ==
    /\ pc[t] = "co_write"
    /\ files' = [files EXCEPT ![today] = <<>>]
    /\ exists' = exists \cup {today}
    /\ pc' = [pc EXCEPT ![t] = "co_save"]
    /\ UNCHANGED <<clock, today, cache, loc, calls, closed_by, last_call, probe, report, ui>>

\* to_csv writes the header and the rows and closes the file; lines 187 to
\* 196 are the steps CO_PopCache and Return
CO_Save(t) ==
    /\ pc[t] = "co_save"
    /\ LET df == loc[t].df
           mask == Mask(df, loc[t].employee_id)
           duration_str ==
               TimedeltaStr(work_duration(df[First(mask)].check_in, loc[t].time_str))
           saved == check_out_frame(df, loc[t].employee_id, loc[t].time_str)
       IN  /\ files' = [files EXCEPT ![today] = to_csv(saved)]
           /\ loc' = [loc EXCEPT ![t].df = saved,
                                 ![t].result =
                                    [NoResult EXCEPT !.success = TRUE,
                                                     !.time = loc[t].time_str,
                                                     !.duration = duration_str]]
           /\ closed_by' = closed_by \cup {<<loc[t].callno, df[i].rid>> : i \in mask}
    /\ pc' = [pc EXCEPT ![t] = "co_pop"]
    /\ UNCHANGED <<clock, exists, today, cache, calls, last_call, probe, report, ui>>

\* the threads of one day with the rewrite in its two steps.  A read of the
\* emptied file by another check-out raises as the read of the summary does;
\* a check-in waits until the file is whole again.
RewriteNext ==
    \/ Tick({clock.date})
    \/ \E t \in Threads : ~Torn(today) /\ record_check_in(t)
    \/ \E t \in Threads, e \in EmployeeIds : Call(t, "check_out", e)
    \/ \E t \in Threads : CO_PreCheck(t)
    \/ \E t \in Threads : ~Torn(today) /\ CO_Read(t)
    \/ \E t \in Threads : Torn(today) /\ CO_Read_raises(t)
    \/ \E t \in Threads : CO_Truncate(t)
    \/ \E t \in Threads : CO_Save(t)
    \/ \E t \in Threads : CO_PopCache(t)
    \/ \E t \in Threads : get_attendance_summary(t)
    \/ \E t \in Threads : Return(t)
    \/ \E t \in Threads : Unwind(t)

RewriteSpec == Init /\ [][RewriteNext]_vars

-----------------------------------------------------------------------------
(* AttendanceManager.__init__ of another manager object on the same        *)
(* directory: generate_report of the command line (main.py, line 37) and   *)
(* generate_report_ui (main.py, line 480) construct one for each report.   *)
(* _initialize_daily_file tests the existence of the file and creates it   *)
(* in two steps, and nothing stops another step in between.                *)

\* __init__, lines 26 to 30: the date of the new object and its file
IN_Call(t) ==
    /\ pc[t] = "idle"
    /\ \A u \in Threads : u < t => pc[u] # "idle"
    /\ calls < MaxCalls
    /\ calls' = calls + 1
    /\ loc' = [loc EXCEPT ![t] =
                [Idle EXCEPT !.op = "init", !.date = clock.date,
                             !.call_date = clock.date, !.callno = calls + 1,
                             !.pre = [rows |-> files[clock.date], cache |-> cache]]]
    /\ pc' = [pc EXCEPT ![t] = "in_exists"]
    /\ UNCHANGED <<clock, exists, files, today, cache, closed_by, last_call, probe, report, ui>>

\* _initialize_daily_file, line 38: os.path.exists(today_file)
IN_Exists(t) ==
    /\ pc[t] = "in_exists"
    /\ pc' = [pc EXCEPT ![t] = IF loc[t].date \in exists THEN "done" ELSE "in_create"]
    /\ UNCHANGED <<clock, exists, files, today, cache, loc, calls, closed_by, last_call, probe, report, ui>>

\* _initialize_daily_file, lines 39 to 41: open(today_file, 'w') creates or
\* empties the file, and the header is written
IN_Create(t) ==
    /\ pc[t] = "in_create"
    /\ files' = [files EXCEPT ![loc[t].date] = <<>>]
    /\ exists' = exists \cup {loc[t].date}
    /\ pc' = [pc EXCEPT ![t] = "done"]
    /\ UNCHANGED <<clock, today, cache, loc, calls, closed_by, last_call, probe, report, ui>>

initialize_daily_file(t) ==
    \/ IN_Call(t)
    \/ IN_Exists(t)
    \/ IN_Create(t)

\* the check-ins of the shared manager over several days, its restarts, and
\* the constructions of other manager objects
InitNext ==
    \/ Quiet /\ Tick(Dates)
    \/ Construct
    \/ \E t \in Threads : record_check_in(t)
    \/ \E t \in Threads : initialize_daily_file(t)
    \/ \E t \in Threads : Return(t)

InitSpec == Init /\ [][InitNext]_vars

-----------------------------------------------------------------------------
(* The front ends: what they show of the result of record_check_in and of  *)
(* record_check_out.                                                       *)

\* UIManager._recognize_face_thread (ui_manager.py, lines 177 to 193)
UI_Display(t) ==
    /\ pc[t] = "done"
    /\ loc[t].op \in {"check_in", "check_out"}
    /\ loc[t].shown = NoShown
    /\ LET result == loc[t].result
       IN  loc' = [loc EXCEPT ![t].shown =
                    IF result.success
                    THEN [message |->
                            IF loc[t].op = "check_in"
                            THEN "Check-in: " \o loc[t].name \o ", Status: " \o result.status
                            ELSE "Check-out: " \o loc[t].name \o ", Duration: " \o result.duration,
                          success |-> TRUE]
                    ELSE [message |-> result.message, success |-> FALSE]]
    /\ UNCHANGED <<clock, exists, files, today, cache, pc, calls, closed_by, last_call, probe, report, ui>>

\* process_frame_for_recognition of the web application (main.py, lines 133
\* to 143): attendance_result is assigned and not read
Web_Display(t) ==
    /\ pc[t] = "done"
    /\ loc[t].op \in {"check_in", "check_out"}
    /\ loc[t].shown = NoShown
    /\ loc' = [loc EXCEPT ![t].shown =
                [message |->
                    IF loc[t].op = "check_in"
                    THEN "Welcome " \o loc[t].name \o "! Checked in at " \o Strftime(clock.time)
                    ELSE "Goodbye " \o loc[t].name \o "! Checked out at " \o Strftime(clock.time),
                 success |-> TRUE]]
    /\ UNCHANGED <<clock, exists, files, today, cache, pc, calls, closed_by, last_call, probe, report, ui>>

\* one call at a time, each shown by one of the front ends
FrontNext ==
    \/ Quiet /\ Tick(Dates)
    \/ Construct
    \/ record_check_in(1)
    \/ record_check_out(1)
    \/ UI_Display(1)
    \/ Web_Display(1)
    \/ loc[1].shown # NoShown /\ Return(1)

FrontSpec == Init /\ [][FrontNext]_vars

-----------------------------------------------------------------------------
(* The system on a machine whose clock is set to UTC, as that of a server   *)
(* or a container is: Asia/Ho_Chi_Minh is seven hours ahead of it all year. *)

UTC_TO_VIETNAM == 7 * 3600

\* one call at a time over several days and restarts, on that machine
ZoneNext ==
    \/ Quiet /\ Tick(Dates)
    \/ ConstructIn(UTC_TO_VIETNAM)
    \/ record_check_in(1)
    \/ record_check_out(1)
    \/ Return(1)

ZoneSpec == Init /\ [][ZoneNext]_vars

-----------------------------------------------------------------------------
(* UIManager (ui_manager.py): the video loop _process_video, which starts  *)
(* the recognition threads and handles the key M, and the recognition      *)
(* threads _recognize_face_thread.  No lock is taken anywhere: the threads *)
(* share is_processing, check_in_mode, last_recognized_time and the status *)
(* line, and a step of one can come between any two steps of another.      *)

\* the attendance calls the recognition threads make in all
MaxUICalls == 2

\* the recognition threads that have not yet made their attendance call
BeforeCall ==
    {w \in Workers : ui.worker[w].stage \in {"begin", "anti_spoof", "identify", "record"}}

\* _process_video, lines 115 to 124: the flag is tested and set and a thread
\* is started.  No more threads are started than can make their call within
\* MaxUICalls.
V_Start(w) ==
    /\ ui.cooled
    /\ ~ui.is_processing
    /\ ui.worker[w].stage = "none"
    /\ \A v \in Workers : v < w => ui.worker[v].stage # "none"
    /\ calls + Cardinality(BeforeCall) < MaxUICalls
    /\ ui' = [ui EXCEPT !.is_processing = TRUE,
                        !.worker[w] = [NoWorker EXCEPT !.stage = "begin"]]
    /\ UNCHANGED <<clock, exists, files, today, cache, pc, loc, calls, closed_by,
                   last_call, probe, report>>

\* _process_video, lines 139 and 140, and toggle_check_mode, lines 60 to 65
V_Toggle ==
    /\ ui' = [ui EXCEPT !.check_in_mode = ~ui.check_in_mode]
    /\ UNCHANGED <<clock, exists, files, today, cache, pc, loc, calls, closed_by,
                   last_call, probe, report>>

\* recognition_cooldown seconds have passed since last_recognized_time
V_Cooldown ==
    /\ ~ui.cooled
    /\ ui' = [ui EXCEPT !.cooled = TRUE]
    /\ UNCHANGED <<clock, exists, files, today, cache, pc, loc, calls, closed_by,
                   last_call, probe, report>>

\* _recognize_face_thread, lines 148 to 151
W_Begin(w) ==
    /\ ui.worker[w].stage = "begin"
    /\ ui' = [ui EXCEPT !.worker[w].stage = "anti_spoof"]
    /\ UNCHANGED <<clock, exists, files, today, cache, pc, loc, calls, closed_by,
                   last_call, probe, report>>

\* lines 153 to 166: verify_anti_spoofing says the face is real, or says it
\* is not (the flag is cleared and the method returns, through its finally
\* clause), or raises
W_AntiSpoof(w) ==
    /\ ui.worker[w].stage = "anti_spoof"
    /\ \/ ui' = [ui EXCEPT !.worker[w].stage = "identify"]
       \/ ui' = [ui EXCEPT !.cooled = FALSE,
                           !.is_processing = FALSE,
                           !.worker[w].stage = "finally",
                           !.worker[w].path = "spoof"]
       \/ ui' = [ui EXCEPT !.worker[w].stage = "except"]
    /\ UNCHANGED <<clock, exists, files, today, cache, pc, loc, calls, closed_by,
                   last_call, probe, report>>

\* lines 168 to 175 and 194 to 199: identify_face recognizes an employee, or
\* does not, or raises
W_Identify(w) ==
    /\ ui.worker[w].stage = "identify"
    /\ \/ \E e \in EmployeeIds :
            ui' = [ui EXCEPT !.worker[w].stage = "record",
                             !.worker[w].employee_id = e]
       \/ ui' = [ui EXCEPT !.worker[w].stage = "stamp",
                           !.worker[w].path = "unrecognized"]
       \/ ui' = [ui EXCEPT !.worker[w].stage = "except"]
    /\ UNCHANGED <<clock, exists, files, today, cache, pc, loc, calls, closed_by,
                   last_call, probe, report>>

\* lines 178 to 181: check_in_mode is read and the method of the attendance
\* manager is called
W_Record(w) ==
    /\ ui.worker[w].stage = "record"
    /\ \E t \in Threads :
        /\ BeginCall(t, IF ui.check_in_mode THEN "check_in" ELSE "check_out",
                     ui.worker[w].employee_id)
        /\ ui' = [ui EXCEPT !.worker[w].stage = "recording",
                            !.worker[w].thread = t]

\* lines 183 to 193: the call has returned; check_in_mode is read again to
\* compose the status line.  The result of record_check_in has no duration
\* and that of record_check_out no status: result.get gives ''.
W_Compose(w) ==
    /\ ui.worker[w].stage = "recording"
    /\ LET t == ui.worker[w].thread
           result == loc[t].result
           message == IF ~result.success THEN result.message
                      ELSE IF ui.check_in_mode
                      THEN "Check-in: " \o loc[t].name \o ", Status: " \o result.status
                      ELSE "Check-out: " \o loc[t].name \o ", Duration: " \o result.duration
       IN  /\ TakeResult(t)
           /\ ui' = [ui EXCEPT !.worker[w].stage = "stamp",
                               !.worker[w].path = loc[t].op,
                               !.worker[w].success = result.success,
                               !.worker[w].message = message]

\* line 201
W_Stamp(w) ==
    /\ ui.worker[w].stage = "stamp"
    /\ ui' = [ui EXCEPT !.cooled = FALSE, !.worker[w].stage = "finally"]
    /\ UNCHANGED <<clock, exists, files, today, cache, pc, loc, calls, closed_by,
                   last_call, probe, report>>

\* a slip: the handler of the exception ends the thread itself
W_Except_ends(w) ==
    /\ ui.worker[w].stage = "except"
    /\ ui' = [ui EXCEPT !.cooled = FALSE,
                        !.worker[w] = NoWorker]
    /\ UNCHANGED <<clock, exists, files, today, cache, pc, loc, calls, closed_by,
                   last_call, probe, report>>

\* lines 203 to 208: the except clause
W_Except(w) ==
    /\ ui.worker[w].stage = "except"
    /\ ui' = [ui EXCEPT !.cooled = FALSE,
                        !.worker[w].stage = "finally",
                        !.worker[w].path = "exception"]
    /\ UNCHANGED <<clock, exists, files, today, cache, pc, loc, calls, closed_by,
                   last_call, probe, report>>

\* lines 210 to 212: the finally clause, and the thread ends
W_Finally(w) ==
    /\ ui.worker[w].stage = "finally"
    /\ ui' = [ui EXCEPT !.is_processing = FALSE, !.worker[w] = NoWorker]
    /\ UNCHANGED <<clock, exists, files, today, cache, pc, loc, calls, closed_by,
                   last_call, probe, report>>

recognize_face_thread(w) ==
    \/ W_Begin(w)
    \/ W_AntiSpoof(w)
    \/ W_Identify(w)
    \/ W_Record(w)
    \/ W_Compose(w)
    \/ W_Stamp(w)
    \/ W_Except(w)
    \/ W_Finally(w)

\* the steps of a call of the attendance manager after its first
attendance_call(t) ==
    \/ CI_PreCheck(t)
    \/ CI_Append(t)
    \/ CI_UpdateCache(t)
    \/ CO_PreCheck(t)
    \/ CO_Read(t)
    \/ CO_Write(t)
    \/ CO_PopCache(t)

process_video ==
    \/ \E w \in Workers : V_Start(w)
    \/ V_Toggle

UINext ==
    \/ process_video
    \/ V_Cooldown
    \/ \E w \in Workers : recognize_face_thread(w)
    \/ \E t \in Threads : attendance_call(t)

UISpec == Init /\ [][UINext]_vars

\* the threads of the recognitions run on, each at its own speed
UILiveSpec ==
    /\ UISpec
    /\ \A w \in Workers : WF_vars(recognize_face_thread(w))
    /\ \A t \in Threads : WF_vars(attendance_call(t))

-----------------------------------------------------------------------------
(* The pure computations on their own: _get_status on the text of a        *)
(* check-in time, and the work duration and its text on a pair of times.   *)

PureInit ==
    /\ Init!1 /\ Init!2 /\ Init!3 /\ Init!4 /\ Init!5 /\ Init!6 /\ Init!7
    /\ Init!8 /\ Init!9 /\ Init!10 /\ Init!13
    /\ probe \in [check_in : ProbeTimes, check_out : ProbeTimes, status : {""},
                  duration : {0}, duration_str : {""}]
    /\ report = NoReport

ProbeStatus ==
    /\ probe.status = ""
    /\ probe' = [probe EXCEPT !.status = get_status(Strftime(probe.check_in))]
    /\ UNCHANGED <<clock, exists, files, today, cache, pc, loc, calls, closed_by,
                   last_call, report, ui>>

ProbeDuration ==
    /\ probe.duration_str = ""
    /\ LET d == work_duration(Strftime(probe.check_in), Strftime(probe.check_out))
       IN  probe' = [probe EXCEPT !.duration = d, !.duration_str = TimedeltaStr(d)]
    /\ UNCHANGED <<clock, exists, files, today, cache, pc, loc, calls, closed_by,
                   last_call, report, ui>>

PureNext == ProbeStatus \/ ProbeDuration

PureSpec == PureInit /\ [][PureNext]_vars

-----------------------------------------------------------------------------
(* generate_monthly_report.  Dates are datetime.date values, records of    *)
(* year, month and day; the date arithmetic is that of the datetime        *)
(* module, which counts days in the proleptic Gregorian calendar.          *)

is_leap(year) == year % 4 = 0 /\ (year % 100 # 0 \/ year % 400 = 0)

days_in_month(year, month) ==
    IF month = 2 THEN (IF is_leap(year) THEN 29 ELSE 28)
    ELSE IF month \in {4, 6, 9, 11} THEN 30 ELSE 31

\* the days before January 1st of the year
days_before_year(year) ==
    LET y == year - 1
    IN  y * 365 + (y \div 4) - (y \div 100) + (y \div 400)

\* the days of the year before the first day of the month
days_before_month(year, month) ==
    <<0, 31, 59, 90, 120, 151, 181, 212, 243, 273, 304, 334>>[month]
        + (IF month > 2 /\ is_leap(year) THEN 1 ELSE 0)

date(year, month, day) == [year |-> year, month |-> month, day |-> day]

\* date.toordinal(): January 1st of year 1 is day 1
toordinal(d) == days_before_year(d.year) + days_before_month(d.year, d.month) + d.day

\* date.fromordinal(n), by the 400, 100, 4 and 1 year cycles
fromordinal(ordinal) ==
    LET n0 == ordinal - 1
        n400 == n0 \div 146097
        r400 == n0 % 146097
        n100 == r400 \div 36524
        r100 == r400 % 36524
        n4 == r100 \div 1461
        r4 == r100 % 1461
        n1 == r4 \div 365
        r1 == r4 % 365
        year == n400 * 400 + 1 + n100 * 100 + n4 * 4 + n1
    IN  IF n1 = 4 \/ n100 = 4 THEN date(year - 1, 12, 31)
        ELSE LET month == CHOOSE mo \in 1..12 :
                              /\ days_before_month(year, mo) <= r1
                              /\ r1 < days_before_month(year, mo) + days_in_month(year, mo)
             IN  date(year, month, r1 - days_before_month(year, month) + 1)

Pad4(n) ==
    IF n < 10 THEN "000" \o ToString(n)
    ELSE IF n < 100 THEN "00" \o ToString(n)
    ELSE IF n < 1000 THEN "0" \o ToString(n)
    ELSE ToString(n)

\* date.strftime('%Y-%m-%d')
StrftimeDate(d) == Pad4(d.year) \o "-" \o Pad2(d.month) \o "-" \o Pad2(d.day)

\* a slip: December is followed by January of the same year
end_date_same_year(year, month) ==
    LET next_month == IF month = 12 THEN 1 ELSE month + 1
    IN  fromordinal(toordinal(date(year, next_month, 1)) - 1)

\* lines 234 to 242: the day before the first day of the next month
end_date(year, month) ==
    LET next_year == IF month = 12 THEN year + 1 ELSE year
        next_month == IF month = 12 THEN 1 ELSE month + 1
    IN  fromordinal(toordinal(date(next_year, next_month, 1)) - 1)

\* lines 241 to 247: range(n) is empty when n is not positive
dates_in_month(year, month) ==
    LET start_date == date(year, month, 1)
        n == toordinal(end_date(year, month)) - toordinal(start_date) + 1
    IN  [i \in 1..n |-> StrftimeDate(fromordinal(toordinal(start_date) + (i - 1)))]

\* lines 250 to 258: the rows the loops visit, each with the date of its file,
\* in the order of the dates and, in a file, of its rows; fs maps the date of
\* every attendance_<date>.csv that exists to its rows
RECURSIVE Scan(_, _, _)
Scan(dates, i, fs) ==
    IF i > Len(dates) THEN <<>>
    ELSE LET df == IF dates[i] \in DOMAIN fs THEN read_csv(fs[dates[i]]) ELSE <<>>
         IN  [k \in 1..Len(df) |-> [date_str |-> dates[i], row |-> df[k]]]
                 \o Scan(dates, i + 1, fs)

\* lines 259 to 270: all_employees after the first n rows visited.  A
\* dictionary keeps its keys in the order of their insertion: keys is that
\* order, data the values.
RECURSIVE Collect(_, _, _)
Collect(dates, scan, n) ==
    IF n = 0 THEN [keys |-> <<>>, data |-> <<>>]
    ELSE LET prev == Collect(dates, scan, n - 1)
             employee_id == scan[n].row.id
             name == scan[n].row.name
             status == scan[n].row.status
             seen == employee_id \in DOMAIN prev.data
             entry == IF seen THEN prev.data[employee_id]
                      ELSE [Name |-> name,
                            cells |-> [d \in {dates[i] : i \in 1..Len(dates)} |-> "Absent"]]
         IN  [keys |-> IF seen THEN prev.keys ELSE Append(prev.keys, employee_id),
              data |-> Put(prev.data, employee_id,
                           [entry EXCEPT !.cells[scan[n].date_str] = status])]

\* a slip: every registered employee gets a row, absent on all dates unless
\* a record says otherwise
monthly_table_all_registered(dates, fs) ==
    LET scan == Scan(dates, 1, fs)
        all_employees == Collect(dates, scan, Len(scan))
        known == {all_employees.keys[i].v : i \in 1..Len(all_employees.keys)}
        absent == CHOOSE q \in [1..Cardinality(EmployeeIds \ known) -> EmployeeIds \ known] :
                      \A i, j \in DOMAIN q : i # j => q[i] # q[j]
    IN  [columns |-> <<"Employee ID", "Name">> \o dates,
         rows |-> [i \in 1..Len(all_employees.keys) |->
                      LET k == all_employees.keys[i]
                      IN  [id |-> k.v, Name |-> all_employees.data[k].Name,
                           cells |-> all_employees.data[k].cells]]
                  \o [i \in DOMAIN absent |->
                        [id |-> absent[i], Name |-> NameOf(absent[i]),
                         cells |-> [d \in {dates[j] : j \in 1..Len(dates)} |-> "Absent"]]]]

\* lines 244 to 289: the table written to monthly_report_<year>_<month>.csv.
\* With no employee the frame has the columns and no row; otherwise it has
\* one row per key of all_employees, in the order of their insertion.
\* to_csv writes a key that is an integer as its numeral and NaN as an empty
\* field.
monthly_table(dates, fs) ==
    LET scan == Scan(dates, 1, fs)
        all_employees == Collect(dates, scan, Len(scan))
        text(x) == IF x = NaN THEN "" ELSE x
    IN  [columns |-> <<"Employee ID", "Name">> \o dates,
         rows |-> [i \in 1..Len(all_employees.keys) |->
                      LET k == all_employees.keys[i]
                      IN  [id |-> k.v, Name |-> text(all_employees.data[k].Name),
                           cells |-> [d \in DOMAIN all_employees.data[k].cells |->
                                         text(all_employees.data[k].cells[d])]]]]

(* The reports of the model: any month of a few years when no ledger file   *)
(* exists, and for two months any ledgers of at most MaxRows records in all *)
(* on the first three days.                                                 *)

MaxRows == 3

ReportYears == {1900, 2000, 2023, 2024, 2100}
ReportMonths == {<<2023, 12>>, <<2024, 2>>}
ReportDays == {1, 2, 3}

\* a line of a ledger that ends after the check-in time (a write that was
\* cut short, an edit by hand): read_csv reads the missing fields as NaN
ShortRow == CheckInRow("E1", "An", Strftime(HMS(0, 10, 0)), "", "", 0)

\* rows as record_check_in writes them; the second name of "7" is that of a
\* later registration of the same id
ReportRows ==
    {CheckInRow(x[1], x[2], Strftime(x[3]), get_status(Strftime(x[3])),
                CheckInComments(get_status(Strftime(x[3]))), 0) :
        x \in {<<"E1", "An", HMS(0, 10, 0)>>, <<"E1", "An", HMS(23, 50, 0)>>,
               <<"7", "Binh", HMS(0, 10, 0)>>, <<"7", "Bich", HMS(23, 50, 0)>>}}
    \cup {ShortRow}

\* the records of a month in the order they were written: <<row, day>>
MonthRecords ==
    {q \in UNION {[1..n -> ReportRows \X ReportDays] : n \in 0..MaxRows} :
        \A i \in 1..(Len(q) - 1) : q[i][2] <= q[i + 1][2]}

\* the files of a month, date -> rows: a file for every day with a record
\* and for every day on which a manager was constructed (started)
MonthFiles(year, month, q, started) ==
    LET days == started \cup {q[i][2] : i \in 1..Len(q)}
        day_of(s) == CHOOSE d \in days : StrftimeDate(date(year, month, d)) = s
        rows_of(d) == LET sel == SelectSeq(q, LAMBDA x : x[2] = d)
                      IN  [i \in 1..Len(sel) |-> sel[i][1]]
    IN  [s \in {StrftimeDate(date(year, month, d)) : d \in days} |-> rows_of(day_of(s))]

ReportInit ==
    /\ Init!1 /\ Init!2 /\ Init!3 /\ Init!4 /\ Init!5 /\ Init!6 /\ Init!7
    /\ Init!8 /\ Init!9 /\ Init!10 /\ Init!11 /\ Init!13
    /\ \E year \in ReportYears, month \in 1..12 :
        \E q \in IF <<year, month>> \in ReportMonths THEN MonthRecords ELSE {<<>>} :
            \E started \in IF <<year, month>> \in ReportMonths
                           THEN SUBSET ReportDays ELSE {{}} :
                report = [NoReport EXCEPT !.year = year, !.month = month,
                                          !.fs = MonthFiles(year, month, q, started)]

\* the report of a month is asked for at most MaxRuns times
MaxRuns == 2

\* a slip: the ledgers that were aggregated are moved away
generate_monthly_report_archives ==
    /\ report.runs < MaxRuns
    /\ LET dates == dates_in_month(report.year, report.month)
       IN  report' = [report EXCEPT !.dates = dates,
                                    !.table = monthly_table(dates, report.fs),
                                    !.done = TRUE,
                                    !.runs = report.runs + 1,
                                    !.previous = report.table,
                                    !.fs = <<>>]
    /\ UNCHANGED <<clock, exists, files, today, cache, pc, loc, calls, closed_by,
                   last_call, probe, ui>>

\* runs and previous are history: the number of reports made of the month
\* and the table of the report before this one
generate_monthly_report ==
    /\ report.runs < MaxRuns
    /\ LET dates == dates_in_month(report.year, report.month)
       IN  report' = [report EXCEPT !.dates = dates,
                                    !.table = monthly_table(dates, report.fs),
                                    !.done = TRUE,
                                    !.runs = report.runs + 1,
                                    !.previous = report.table]
    /\ UNCHANGED <<clock, exists, files, today, cache, pc, loc, calls, closed_by,
                   last_call, probe, ui>>

ReportNext == generate_monthly_report

ReportSpec == ReportInit /\ [][ReportNext]_vars

\* the reports of one month whose ledgers hold up to MaxRows + 1 records of
\* two employees on two days, so that an employee can have two records on
\* one date and a third record in a ledger with the other employee's
RepeatRows ==
    {CheckInRow(x[1], x[2], Strftime(x[3]), get_status(Strftime(x[3])),
                CheckInComments(get_status(Strftime(x[3]))), 0) :
        x \in {<<"7", "Binh", HMS(0, 10, 0)>>, <<"7", "Binh", HMS(23, 50, 0)>>,
               <<"E1", "An", HMS(0, 10, 0)>>}}

RepeatRecords ==
    {q \in UNION {[1..n -> RepeatRows \X {1, 2}] : n \in 0..(MaxRows + 1)} :
        \A i \in 1..(Len(q) - 1) : q[i][2] <= q[i + 1][2]}

RepeatInit ==
    /\ Init!1 /\ Init!2 /\ Init!3 /\ Init!4 /\ Init!5 /\ Init!6 /\ Init!7
    /\ Init!8 /\ Init!9 /\ Init!10 /\ Init!11 /\ Init!13
    /\ \E q \in RepeatRecords :
        report = [NoReport EXCEPT !.year = 2024, !.month = 2,
                                  !.fs = MonthFiles(2024, 2, q, {})]

RepeatSpec == RepeatInit /\ [][ReportNext]_vars

-----------------------------------------------------------------------------
(* The properties *)

\* the open records of an employee in the rows of a ledger file
OpenRows(rows, e) ==
    {i \in 1..Len(rows) :
        rows[i].id = e /\ rows[i].check_in # "" /\ rows[i].check_out = ""}

\* thread t has finished a call of op for employee e and holds its result
Done(t, op, e) == pc[t] = "done" /\ loc[t].op = op /\ loc[t].employee_id = e

AlreadyCheckedInMessage(name, check_in_time) ==
    name \o " has already checked in today at " \o check_in_time \o "."

NotCheckedInMessage(name) == name \o " has not checked in today."

\* C1: after any sequence of completed calls, one after the other, every
\* daily ledger holds at most one open record for each employee id.
C1_AtMostOneOpenRecord ==
    \A d \in Dates, e \in EmployeeIds : Cardinality(OpenRows(files[d], e)) <= 1

\* C2: a check-in of an employee with no open record in the ledger succeeds
\* and appends one record; a check-in that follows an accepted check-in of the
\* same employee on the same calendar day, with no check-out call between the
\* two, is rejected as already checked in.
C2_SecondCheckInRejected ==
    \A e \in EmployeeIds :
        Done(1, "check_in", e) =>
            /\ OpenRows(loc[1].pre.rows, e) = {}
                => /\ loc[1].result.success
                   /\ Len(files[today]) = Len(loc[1].pre.rows) + 1
            /\ ( /\ last_call[e].op = "check_in"
                 /\ last_call[e].success
                 /\ last_call[e].call_date = loc[1].call_date )
                => /\ ~loc[1].result.success
                   /\ \E i \in OpenRows(files[today], e) :
                        loc[1].result.message =
                            AlreadyCheckedInMessage(loc[1].name, files[today][i].check_in)

\* C3: when every thread has made a check-in attempt for the same employee at
\* the same instant, all starting from the same ledger with no open record of
\* that employee, exactly one attempt is accepted, the others are rejected as
\* already checked in, and the ledger holds exactly one record of them.
C3_OneAcceptedOfN ==
    \A e \in EmployeeIds :
        ( /\ \A t \in Threads : Done(t, "check_in", e)
          /\ \A t \in Threads : loc[t].pre = loc[1].pre /\ loc[t].time_str = loc[1].time_str
          /\ OpenRows(loc[1].pre.rows, e) = {}
          /\ StrKey(e) \notin DOMAIN loc[1].pre.cache )
        => /\ Cardinality({t \in Threads : loc[t].result.success}) = 1
           /\ Cardinality({i \in 1..Len(files[today]) :
                   files[today][i].rid \in {loc[t].callno : t \in Threads}}) = 1

\* C4: no record is closed by two check-out calls: its check-out time and
\* duration comment are written by one successful call only.
C4_NoDoubleClose ==
    \A p \in closed_by, q \in closed_by : p[2] = q[2] => p[1] = q[1]

\* C5: a check-out of an employee with no open record in the manager's ledger
\* fails as not checked in and leaves the ledger and the cache as they were
\* when the call began.
C5_CheckOutWithoutOpenRecord ==
    \A e \in EmployeeIds :
        (Done(1, "check_out", e) /\ OpenRows(loc[1].pre.rows, e) = {})
        => /\ ~loc[1].result.success
           /\ loc[1].result.message = NotCheckedInMessage(loc[1].name)
           /\ files[today] = loc[1].pre.rows
           /\ cache = loc[1].pre.cache

\* a check-out of an employee whose earlier record of the day is closed has
\* just been refused
C5_Witness ==
    \E e \in EmployeeIds :
        /\ Done(1, "check_out", e)
        /\ OpenRows(loc[1].pre.rows, e) = {}
        /\ \E i \in 1..Len(loc[1].pre.rows) : loc[1].pre.rows[i].id = e
        /\ ~loc[1].result.success

\* C6: when a check-out has succeeded, the ledger holds no open record of the
\* employee and the employee is not in the checked-in cache.
C6_ClosedAfterCheckOut ==
    \A e \in EmployeeIds :
        (Done(1, "check_out", e) /\ loc[1].result.success)
        => /\ OpenRows(files[today], e) = {}
           /\ Mask(read_csv(files[today]), e) = {}
           /\ StrKey(e) \notin DOMAIN cache

\* a check-out has just succeeded for an employee that had an open record
C6_Witness ==
    \E e \in EmployeeIds :
        /\ Done(1, "check_out", e)
        /\ loc[1].result.success
        /\ OpenRows(loc[1].pre.rows, e) # {}

\* C7: the status is decided by the check-in time of day alone, to the second:
\* at or before 09:00:00 On Time, up to 10 minutes after it Grace Period,
\* later Late.
C7_StatusByCheckInTime ==
    probe.status # "" =>
        LET delta == probe.check_in - HMS(9, 0, 0)
        IN  /\ delta <= 0 => probe.status = "On Time"
            /\ (0 < delta /\ delta <= 10 * 60) => probe.status = "Grace Period"
            /\ delta > 10 * 60 => probe.status = "Late"
            /\ probe.check_in = HMS(8, 55, 0) => probe.status = "On Time"
            /\ probe.check_in = HMS(9, 0, 0) => probe.status = "On Time"
            /\ probe.check_in = HMS(9, 10, 0) => probe.status = "Grace Period"
            /\ probe.check_in = HMS(9, 10, 1) => probe.status = "Late"

\* the status of a check-in at 09:10:01 has been computed
C7_Witness == probe.check_in = HMS(9, 10, 1) /\ probe.status = "Late"

\* C8: no step changes the employee id, name, check-in time or status of a
\* record: a record that is in a ledger before and after a step has the same
\* four fields after it as before it.
C8_StatusFixedAtCheckIn ==
    [][\A d \in Dates :
        \A i \in 1..Len(files[d]) : \A j \in 1..Len(files'[d]) :
            files'[d][j].rid = files[d][i].rid =>
                /\ files'[d][j].id = files[d][i].id
                /\ files'[d][j].name = files[d][i].name
                /\ files'[d][j].check_in = files[d][i].check_in
                /\ files'[d][j].status = files[d][i].status]_vars

\* a record checked in within the grace period has been closed by a check-out
\* made at a time of day at which a check-in would be late
C8_Witness ==
    \E d \in Dates : \E i \in 1..Len(files[d]) :
        /\ files[d][i].status = "Grace Period"
        /\ files[d][i].check_out = Strftime(HMS(23, 50, 0))

\* C9, as amended: the work duration is the check-out time of day minus the
\* check-in time of day modulo 24 hours, never negative, and it is reported
\* as str(timedelta) writes it, H:MM:SS with the hours not zero-padded
\* (check-in 23:50:00, check-out 00:10:00: 20 minutes, "0:20:00").
C9_DurationModuloDay ==
    probe.duration_str # "" =>
        LET d == probe.duration
        IN  /\ d >= 0
            /\ d = (probe.check_out - probe.check_in) % (24 * 60 * 60)
            /\ probe.duration_str =
                  ToString(d \div 3600) \o ":" \o Pad2((d \div 60) % 60)
                      \o ":" \o Pad2(d % 60)
            /\ (probe.check_in = HMS(23, 50, 0) /\ probe.check_out = HMS(0, 10, 0))
                  => d = 20 * 60 /\ probe.duration_str = "0:20:00"

\* the duration from 23:50:00 to 00:10:00 has been computed
C9_Witness ==
    /\ probe.check_in = HMS(23, 50, 0)
    /\ probe.check_out = HMS(0, 10, 0)
    /\ probe.duration_str # ""

\* C9, as stated: the duration is never negative, is the difference modulo
\* 24 hours, and is reported as HH:MM:SS (23:50:00 to 00:10:00: "00:20:00").
C9_DurationReportedPadded ==
    probe.duration_str # "" =>
        /\ probe.duration >= 0
        /\ probe.duration = (probe.check_out - probe.check_in) % (24 * 60 * 60)
        /\ probe.duration_str = Strftime(probe.duration)

\* C10: an accepted check-in is in the ledger of the calendar date at the
\* moment of the call.
C10_FiledUnderDateOfCall ==
    \A e \in EmployeeIds :
        (Done(1, "check_in", e) /\ loc[1].result.success)
        => \E i \in 1..Len(files[loc[1].call_date]) :
              files[loc[1].call_date][i].rid = loc[1].callno

\* C11: the first check-in attempt that an employee makes on a calendar day
\* is accepted, also when the employee's record of an earlier day was never
\* closed: the open record of the earlier day does not make it fail.
C11_NewDayCheckInAccepted ==
    \A e \in EmployeeIds :
        (Done(1, "check_in", e) /\ last_call[e].call_date < loc[1].call_date)
        => loc[1].result.success

\* C12: no step removes a record from a ledger: every record that is in a
\* day's ledger before a step is in it after the step.
C12_NoRecordRemoved ==
    [][\A d \in Dates :
        {files[d][i].rid : i \in 1..Len(files[d])}
            \subseteq {files'[d][j].rid : j \in 1..Len(files'[d])}]_vars

\* C13: a rejected check-in leaves the manager's ledger and the cache as they
\* were when the call began, and its message gives the check-in time of an
\* open record of the employee in that ledger.
C13_RejectedCheckInWritesNothing ==
    \A e \in EmployeeIds :
        (Done(1, "check_in", e) /\ ~loc[1].result.success)
        => /\ files[today] = loc[1].pre.rows
           /\ cache = loc[1].pre.cache
           /\ \E i \in OpenRows(files[today], e) :
                loc[1].result.message =
                    AlreadyCheckedInMessage(loc[1].name, files[today][i].check_in)

\* a check-in has just been rejected, at a later time of day than the
\* check-in of the open record
C13_Witness ==
    \E e \in EmployeeIds :
        /\ Done(1, "check_in", e)
        /\ ~loc[1].result.success
        /\ \E i \in OpenRows(loc[1].pre.rows, e) :
              loc[1].pre.rows[i].check_in # loc[1].time_str

\* C14: a check-in begun when the manager's ledger holds an open record of
\* the employee is rejected, whatever the cache says.
C14_RejectedWhenLedgerHasOpenRecord ==
    \A e \in EmployeeIds :
        (Done(1, "check_in", e) /\ OpenRows(loc[1].pre.rows, e) # {})
        => ~loc[1].result.success

\* C19: a step that closes a record sets its comments to "Work duration: d"
\* when they were empty and to the comments it had followed by
\* "; Work duration: d" otherwise, d being a work duration up to the
\* check-out time written.
C19_DurationAppendedToComments ==
    [][\A day \in Dates :
        \A i \in 1..Len(files[day]) : \A j \in 1..Len(files'[day]) :
            ( /\ files'[day][j].rid = files[day][i].rid
              /\ files[day][i].check_out = ""
              /\ files'[day][j].check_out # "" )
            => \E k \in 1..Len(files[day]) :
                  LET d == TimedeltaStr(work_duration(files[day][k].check_in,
                                                      files'[day][j].check_out))
                  IN  files'[day][j].comments =
                          IF files[day][i].comments = ""
                          THEN "Work duration: " \o d
                          ELSE files[day][i].comments \o "; Work duration: " \o d]_vars

\* C20: no call ends by raising an exception: every call that has begun ends
\* with a result value returned to its caller.
C20_NoExceptionLeavesTheManager ==
    \A t \in Threads : pc[t] # "raised"

\* the records of an employee in the ledger file of a date, by their place in
\* the file; none when the date has no file
RecordsOn(fs, date_str, e) ==
    IF date_str \in DOMAIN fs
    THEN {j \in 1..Len(fs[date_str]) : fs[date_str][j].id = e}
    ELSE {}

\* the greatest and the least of a set of numbers
Last(S) == CHOOSE x \in S : \A y \in S : y <= x
Least(S) == CHOOSE x \in S : \A y \in S : x <= y

\* C15: in every row of the monthly report and for every date of the month,
\* the cell is the status of the employee's record of that date (of the last
\* one when there are several) and Absent when the employee has no record
\* on that date; every employee with a record in the month has a row.
C15_CellIsStatusOrAbsent ==
    report.done =>
        /\ \A k \in 1..Len(report.table.rows) : \A i \in 1..Len(report.dates) :
              LET r == report.table.rows[k]
                  recs == RecordsOn(report.fs, report.dates[i], r.id)
              IN  r.cells[report.dates[i]] =
                      IF recs = {} THEN "Absent"
                      ELSE report.fs[report.dates[i]][Last(recs)].status
        /\ \A e \in EmployeeIds :
              (\E i \in 1..Len(report.dates) : RecordsOn(report.fs, report.dates[i], e) # {})
              => \E k \in 1..Len(report.table.rows) : report.table.rows[k].id = e

\* C16: the report of a month with no ledger file has the columns Employee
\* ID, Name and the dates of the month and no row; and no report has a row
\* for an employee without a record in the month.
C16_EmptyMonthReport ==
    report.done =>
        /\ report.table.columns = <<"Employee ID", "Name">> \o report.dates
        /\ Len(report.dates) \in 28..31
        /\ DOMAIN report.fs = {} => report.table.rows = <<>>
        /\ \A k \in 1..Len(report.table.rows) :
              \E i \in 1..Len(report.dates) :
                  RecordsOn(report.fs, report.dates[i], report.table.rows[k].id) # {}

\* the report of a month of 31 days with no ledger file has been generated
C16_Witness ==
    /\ report.done
    /\ DOMAIN report.fs = {}
    /\ Len(report.table.columns) = 33
    /\ report.table.rows = <<>>

\* C17: the dates of the report are the days 1 to the last of the month, each
\* once and in ascending order: 30 days in April, June, September and
\* November, 28 in February and 29 in the leap years (of the years of the
\* model 2000 and 2024, not 1900 and 2100), 31 otherwise.
C17_DatesOfTheMonth ==
    report.done =>
        LET year == report.year
            month == report.month
            last_day == IF month \in {4, 6, 9, 11} THEN 30
                        ELSE IF month # 2 THEN 31
                        ELSE IF year \in {2000, 2024} THEN 29 ELSE 28
        IN  report.dates =
                [day \in 1..last_day |->
                    ToString(year) \o "-" \o Pad2(month) \o "-" \o Pad2(day)]

\* the dates of a December and of the February of a leap year divisible by
\* 100 have been enumerated
C17_Witness ==
    /\ report.done
    /\ \/ report.month = 12 /\ Len(report.dates) = 31
       \/ report.year = 2000 /\ report.month = 2 /\ Len(report.dates) = 29

\* C18: the name in a row of the monthly report is the name of the first
\* record of that employee in the month, the ledgers taken in the order of
\* their dates and the records of a ledger in the order they were written.
C18_FirstSeenNameWins ==
    report.done =>
        \A k \in 1..Len(report.table.rows) :
            LET r == report.table.rows[k]
                on == {i \in 1..Len(report.dates) :
                          RecordsOn(report.fs, report.dates[i], r.id) # {}}
            IN  /\ on # {}
                /\ LET first_date == report.dates[Least(on)]
                       first == Least(RecordsOn(report.fs, first_date, r.id))
                   IN  r.Name = report.fs[first_date][first].name

NoActiveCheckInMessage(name) == "No active check-in found for " \o name \o "."

C22_FailedWriteChangesNothing ==
    \A t \in Threads :
        pc[t] = "raised"
        => /\ files[today] = loc[t].pre.rows
           /\ cache = loc[t].pre.cache

\* C24: a step that closes a record closes the first open record of the
\* employee in the ledger, in the order of insertion, and leaves the
\* employee's other open records as they are.
C24_FirstOpenRecordIsClosed ==
    [][\A day \in Dates :
        \A i \in 1..Len(files[day]) : \A j \in 1..Len(files'[day]) :
            ( /\ files'[day][j].rid = files[day][i].rid
              /\ files[day][i].check_out = ""
              /\ files'[day][j].check_out # "" )
            => i = Least(OpenRows(files[day], files[day][i].id))]_vars

\* C26: a finished get_attendance_summary holds a table of the six ledger
\* columns with every record of the ledger of its date, each once, in the
\* order of the ledger, which is the order in which the check-ins were
\* accepted; the table is empty when the date has no ledger, and the call
\* does not end by an exception.
C26_SummaryReturnsAllRecords ==
    loc[1].op = "summary"
    => /\ pc[1] # "raised"
       /\ pc[1] = "done"
          => LET rows == files[loc[1].date]
                 df == loc[1].df
             IN  /\ loc[1].columns =
                        <<"Employee ID", "Name", "Check-in Time",
                          "Check-out Time", "Status", "Comments">>
                 /\ Len(df) = Len(rows)
                 /\ \A i \in 1..Len(rows) :
                        /\ df[i].rid = rows[i].rid
                        /\ df[i].id.v = rows[i].id
                        /\ df[i].name = rows[i].name
                        /\ df[i].check_in = rows[i].check_in
                        /\ df[i].status = rows[i].status
                        /\ (rows[i].check_out # "" => df[i].check_out = rows[i].check_out)
                 /\ \A i, j \in 1..Len(df) : i < j => df[i].rid < df[j].rid
                 /\ (loc[1].date \notin exists => df = <<>>)

\* C26: a summary has returned two records
C26_Witness ==
    /\ pc[1] = "done"
    /\ loc[1].op = "summary"
    /\ Len(loc[1].df) = 2

\* C26: a summary of a date that has no ledger has returned
C26_WitnessNoLedger ==
    /\ pc[1] = "done"
    /\ loc[1].op = "summary"
    /\ loc[1].date \notin exists

\* C23: a reader of a ledger sees every record that was in the ledger when
\* its call began, whole: a get_attendance_summary that runs while
\* record_check_out rewrites the file does not end by an exception, and the
\* table it returns has every record the ledger had when the call began,
\* with the name and the check-in time of the record.
C23_ReaderSeesEveryRecord ==
    \A t \in Threads :
        loc[t].op = "summary"
        => /\ pc[t] # "raised"
           /\ pc[t] = "done"
              => \A i \in 1..Len(loc[t].pre.rows) :
                    \E j \in 1..Len(loc[t].df) :
                        /\ loc[t].df[j].rid = loc[t].pre.rows[i].rid
                        /\ loc[t].df[j].name = loc[t].pre.rows[i].name
                        /\ loc[t].df[j].check_in = loc[t].pre.rows[i].check_in

\* C25: no step of the initialization of a day's storage removes a record
\* from a ledger: when the ledger exists the step changes no ledger at all,
\* and when initializations race with each other or with a check-in every
\* record that was appended is still in its ledger after the step.
C25_InitializationKeepsRecords ==
    [][\A t \in Threads :
        (pc[t] \in {"in_exists", "in_create"} /\ pc'[t] # pc[t])
        => /\ loc[t].date \in exists => files' = files
           /\ \A d \in Dates : \A i \in 1..Len(files[d]) :
                \E j \in 1..Len(files'[d]) : files'[d][j].rid = files[d][i].rid]_vars

C28_MalformedRowsSkipped ==
    report.done
    => \A i \in 1..Len(report.table.rows) :
          /\ \A d \in DOMAIN report.table.rows[i].cells :
                report.table.rows[i].cells[d] \in {"On Time", "Late", "Absent"}
          /\ \E d \in DOMAIN report.fs : \E j \in 1..Len(report.fs[d]) :
                /\ report.fs[d][j].id = report.table.rows[i].id
                /\ report.fs[d][j] # ShortRow

\* C29: when record_check_in or record_check_out has returned success =
\* False, the front end shows the message of the result and does not show
\* the call as a success.
C29_RejectionIsShown ==
    \A t \in Threads :
        (loc[t].shown # NoShown /\ ~loc[t].result.success)
        => /\ loc[t].shown.message = loc[t].result.message
           /\ ~loc[t].shown.success

\* C30: the time of day of a record and the date of its ledger are read in
\* one time zone: when a check-in is accepted by a manager whose ledger is
\* that of the date in Vietnam at the time of the call, the date on which
\* the stored time of day was read is the date of the ledger, and the stored
\* time of day is the time of day in Vietnam.
C30_TimeAndDateInOneZone ==
    \A e \in EmployeeIds :
        ( /\ Done(1, "check_in", e)
          /\ loc[1].result.success
          /\ today = vietnam_now([date |-> loc[1].call_date,
                                  time |-> Strptime(loc[1].time_str)],
                                 UTC_TO_VIETNAM).date )
        => /\ loc[1].call_date = today
           /\ Strptime(files[today][Len(files[today])].check_in)
                = vietnam_now([date |-> loc[1].call_date,
                               time |-> Strptime(loc[1].time_str)],
                              UTC_TO_VIETNAM).time

\* C32: when no call is running, the keys of checked_in_employees are the
\* ids of the employees with an open record in today's ledger, and the
\* check_in_time cached for an id is the check-in time of an open record of
\* that id; this holds after a construction over an existing ledger too.
C32_CacheMatchesLedger ==
    Quiet
    => /\ DOMAIN cache =
            {StrKey(e) : e \in {x \in EmployeeIds : OpenRows(files[today], x) # {}}}
       /\ \A e \in EmployeeIds :
            StrKey(e) \in DOMAIN cache
            => \E i \in OpenRows(files[today], e) :
                  files[today][i].check_in = cache[StrKey(e)].check_in_time

\* C33: the accepted decisions for an employee alternate, a check-in first:
\* a check-in is accepted only when every record of the employee in the
\* ledger is closed (each accepted check-in before it was followed by an
\* accepted check-out), and a check-out is accepted only when the employee
\* has an open record (an accepted check-in not yet followed by one).
C33_AcceptedDecisionsAlternate ==
    \A e \in EmployeeIds :
        /\ (Done(1, "check_in", e) /\ loc[1].result.success)
            => OpenRows(loc[1].pre.rows, e) = {}
        /\ (Done(1, "check_out", e) /\ loc[1].result.success)
            => OpenRows(loc[1].pre.rows, e) # {}

\* C34: a check-in that follows a successful check-out of the same employee
\* on the same day is accepted; it appends one open record whose status is
\* computed from the time of this check-in, and the records that were in the
\* ledger, the closed one among them, are as they were.
C34_CheckInAfterCheckOut ==
    \A e \in EmployeeIds :
        ( /\ Done(1, "check_in", e)
          /\ last_call[e].op = "check_out"
          /\ last_call[e].success
          /\ last_call[e].call_date = loc[1].call_date )
        => /\ loc[1].result.success
           /\ loc[1].result.status = get_status(loc[1].time_str)
           /\ Len(files[today]) = Len(loc[1].pre.rows) + 1
           /\ SubSeq(files[today], 1, Len(loc[1].pre.rows)) = loc[1].pre.rows
           /\ LET new == files[today][Len(files[today])]
              IN  /\ new.id = e
                  /\ new.check_in = loc[1].time_str
                  /\ new.check_out = ""
                  /\ new.status = get_status(loc[1].time_str)

\* C34: a check-in after a check-out has been accepted at a time of day whose
\* status is not that of the closed record, which is still in the ledger
C34_Witness ==
    \E e \in EmployeeIds :
        /\ Done(1, "check_in", e)
        /\ loc[1].result.success
        /\ last_call[e].op = "check_out"
        /\ last_call[e].success
        /\ last_call[e].call_date = loc[1].call_date
        /\ \E i \in 1..Len(loc[1].pre.rows) :
            /\ files[today][i].id = e
            /\ files[today][i].check_out # ""
            /\ files[today][i].status # loc[1].result.status

\* C35: when an employee has several records on one date, the cell of the
\* monthly report for the employee and the date is the status of the last of
\* these records in the order of the ledger.
C35_LastRecordWins ==
    report.done =>
        \A k \in 1..Len(report.table.rows) : \A i \in 1..Len(report.dates) :
            LET r == report.table.rows[k]
                recs == RecordsOn(report.fs, report.dates[i], r.id)
            IN  Cardinality(recs) >= 2
                => r.cells[report.dates[i]] =
                        report.fs[report.dates[i]][Last(recs)].status

\* the tests that decide a call made now: record_check_in passes line 95, and
\* record_check_out passes line 145 and finds a row in its mask (line 156)
check_in_would_succeed(e) == StrKey(e) \notin DOMAIN cache

check_out_would_succeed(e) ==
    /\ StrKey(e) \in DOMAIN cache
    /\ Mask(read_csv(files[today]), e) # {}

\* C36: when no call is running, for every employee a record_check_in or a
\* record_check_out called next would succeed: no employee is in the cache
\* with no open record that a check-out can close.
C36_NoEmployeeStuck ==
    Quiet => \A e \in EmployeeIds :
                check_in_would_succeed(e) \/ check_out_would_succeed(e)

InFlight == {w \in Workers : ui.worker[w].stage \notin {"none", "finally"}}

\* C31: at most one recognition thread of UIManager is at work at a time,
\* and at most one call of record_check_in or record_check_out is running.
C31_RecognitionsNeverOverlap ==
    /\ Cardinality(InFlight) <= 1
    /\ Cardinality({t \in Threads : pc[t] # "idle"}) <= 1

\* C38: is_processing is never True with no recognition thread running, and
\* every recognition thread that was started comes to its end, whichever way
\* it goes through the method, which clears is_processing; so whenever the
\* flag is set it is cleared later.
C38_ProcessingFlagIsCleared ==
    /\ [](ui.is_processing => \E w \in Workers : ui.worker[w].stage # "none")
    /\ \A w \in Workers :
        (ui.worker[w].stage = "begin") ~> (ui.worker[w].stage = "none")
    /\ ui.is_processing ~> ~ui.is_processing

\* C38: a recognition thread that ended by an exception is at its finally
\* clause, the flag still set
C38_Witness ==
    \E w \in Workers :
        /\ ui.worker[w].stage = "finally"
        /\ ui.worker[w].path = "exception"
        /\ ui.is_processing

\* C39: when the attendance call of a recognition thread has succeeded, the
\* status line the thread writes names the operation that was performed:
\* Check-in with the status of the result after record_check_in, Check-out
\* with the duration after record_check_out.
C39_MessageNamesTheOperation ==
    [][\A w \in Workers :
        ( /\ ui.worker[w].stage = "recording"
          /\ ui'.worker[w].stage = "stamp"
          /\ loc[ui.worker[w].thread].result.success )
        => LET t == ui.worker[w].thread
           IN  ui'.worker[w].message =
                 IF loc[t].op = "check_in"
                 THEN "Check-in: " \o loc[t].name \o ", Status: "
                          \o loc[t].result.status
                 ELSE "Check-out: " \o loc[t].name \o ", Duration: "
                          \o loc[t].result.duration]_vars

====
